---- MODULE Spec2Model ----
(***************************************************************************)
(* Notes backend (src/notes_backend/src/api/main.py): a FastAPI service    *)
(* over one SQLite table "notes", reached through SQLAlchemy sessions.     *)
(*                                                                         *)
(* Strings are sequences of characters.  Timestamps are the values of      *)
(* datetime.utcnow(), taken as a non-decreasing integer clock that may     *)
(* return the same value to two successive reads.                          *)
(*                                                                         *)
(* Spec      requests are handled one after another, each handler being    *)
(*           one action.                                                   *)
(* SpecConc  requests run as concurrent sessions (get_db), one action per  *)
(*           statement that touches the database or the clock.             *)
(***************************************************************************)
EXTENDS Integers, Sequences, FiniteSets, TLC

VARIABLES
    notes,     \* the table: rowid -> [title, content, created_at, updated_at]
    clock,     \* the value datetime.utcnow() returns now
    resp,      \* the last response sent
    created,   \* history: the ids returned by a successful create
    deleted,   \* history: the ids removed by a successful delete
    inserted,  \* history: the ids of the stored rows, in the order of their INSERT
    sess       \* the sessions of the requests in flight (SpecConc)

vars == <<notes, clock, resp, created, deleted, inserted, sess>>

\* ---------------------------------------------------------------- bounds
MaxId == 2
MaxClock == 2
MaxStrLen == 1
MaxSessions == 4

\* ------------------------------------------------------ program constants
MinLength == 1
MaxTitleLength == 255

\* ---------------------------------------------------------------- strings
\* every string of at most MaxStrLen characters over an alphabet
ShortStrs(alphabet) == UNION {[1..n -> alphabet] : n \in 0..MaxStrLen}

Fill(n) == [i \in 1..n |-> "a"]

\* the payload strings the requests are drawn from: the short strings and, for
\* the title, a string of 255 characters followed by one space
ContentInputs == ShortStrs({" ", "a"})

TitleInputs ==
    ShortStrs({" ", "a", "b"}) \cup {Fill(MaxTitleLength) \o <<" ">>}

\* the payloads of the concurrent requests: two titles, one content, all of
\* them accepted by the validation
ConcTitleInputs == {<<"a">>, <<"b">>}

ConcContentInputs == {<<"a">>}

IsSpace(ch) == ch = " "

RECURSIVE LStrip(_)
LStrip(s) ==
    IF s = <<>> THEN s
    ELSE IF IsSpace(Head(s)) THEN LStrip(Tail(s)) ELSE s

RECURSIVE RStrip(_)
RStrip(s) ==
    IF s = <<>> THEN s
    ELSE IF IsSpace(s[Len(s)]) THEN RStrip(SubSeq(s, 1, Len(s) - 1)) ELSE s

\* str.strip()
Strip(s) == RStrip(LStrip(s))

\* ------------------------------------------------------------- validation
\* An optional field is <<>> when absent and <<s>> when it carries s.
Absent == <<>>
Some(s) == <<s>>

OptInputs(S) == {Absent} \cup {Some(s) : s \in S}

\* Field(..., min_length=1, max_length=255) on the title as received
TitleOk(t) == Len(t) >= MinLength /\ Len(t) <= MaxTitleLength

\* Field(..., min_length=1) on the content as received
ContentOk(c) == Len(c) >= MinLength

\* NoteBase / NoteCreate
NoteCreateOk(t, c) == TitleOk(t) /\ ContentOk(c)

\* NoteUpdate: each field is None or satisfies the same constraints
NoteUpdateOk(ot, oc) ==
    /\ (ot # Absent => TitleOk(ot[1]))
    /\ (oc # Absent => ContentOk(oc[1]))

\* ------------------------------------------------------------- the table
Columns == {"title", "content", "created_at", "updated_at"}

Max(S) == CHOOSE x \in S : \A y \in S : y <= x

Min(S) == CHOOSE x \in S : \A y \in S : x <= y

\* INTEGER PRIMARY KEY without AUTOINCREMENT: the rowid of a new row is one
\* more than the largest rowid in the table, and 1 in an empty table.
NextRowid(tbl) == IF DOMAIN tbl = {} THEN 1 ELSE Max(DOMAIN tbl) + 1

\* NoteORM(title=..., content=..., created_at=now, updated_at=now)
NewNote(t, c, now) ==
    [title |-> Strip(t), content |-> Strip(c), created_at |-> now, updated_at |-> now]

\* INSERT INTO notes
InsertRow(tbl, id, row) ==
    [i \in DOMAIN tbl \cup {id} |-> IF i = id THEN row ELSE tbl[i]]

\* DELETE FROM notes WHERE id = ?
DeleteRow(tbl, id) == [i \in DOMAIN tbl \ {id} |-> tbl[i]]

\* db.query(NoteORM).filter(NoteORM.id == note_id).first()
Lookup(tbl, id) == IF id \in DOMAIN tbl THEN <<tbl[id]>> ELSE <<>>

\* NoteOut.model_validate(note)
NoteOut(id, row) ==
    [id |-> id, title |-> row.title, content |-> row.content,
     created_at |-> row.created_at, updated_at |-> row.updated_at]

\* The attributes of the instance whose value differs from the one loaded:
\* the unit of work puts only these in the SET clause of its UPDATE.
Changed(loaded, new) == {f \in Columns : new[f] # loaded[f]}

\* a commit that writes the row back whether or not it is still there
FlushUpsert(tbl, id, loaded, new) ==
    IF Changed(loaded, new) = {} THEN [ok |-> TRUE, tbl |-> tbl]
    ELSE [ok |-> TRUE, tbl |-> InsertRow(tbl, id, new)]

\* db.add(note); db.commit() of a loaded instance: UPDATE notes SET <changed>
\* WHERE id = ?.  No statement when nothing changed; an UPDATE that matches
\* no row raises StaleDataError and the transaction is rolled back.
Flush(tbl, id, loaded, new) ==
    IF Changed(loaded, new) = {} THEN [ok |-> TRUE, tbl |-> tbl]
    ELSE IF id \notin DOMAIN tbl THEN [ok |-> FALSE, tbl |-> tbl]
    ELSE [ok |-> TRUE,
          tbl |-> [tbl EXCEPT ![id] =
                     [f \in Columns |->
                        IF f \in Changed(loaded, new) THEN new[f] ELSE @[f]]]]

\* the rowids in the order of a table scan
RECURSIVE ScanOrder(_)
ScanOrder(S) ==
    IF S = {} THEN <<>> ELSE <<Min(S)>> \o ScanOrder(S \ {Min(S)})

\* a sorter that puts a row ahead of the rows with the same updated_at
SorterInsertUnstable(sorted, out) ==
    LET k == Cardinality({i \in 1..Len(sorted) : sorted[i].updated_at > out.updated_at})
    IN SubSeq(sorted, 1, k) \o <<out>> \o SubSeq(sorted, k + 1, Len(sorted))

\* the sorter: a row goes behind every row already sorted whose updated_at
\* is not smaller than its own
SorterInsert(sorted, out) ==
    LET k == Cardinality({i \in 1..Len(sorted) : sorted[i].updated_at >= out.updated_at})
    IN SubSeq(sorted, 1, k) \o <<out>> \o SubSeq(sorted, k + 1, Len(sorted))

RECURSIVE OrderByUpdatedDesc(_, _)
OrderByUpdatedDesc(tbl, scan) ==
    IF scan = <<>> THEN <<>>
    ELSE SorterInsert(OrderByUpdatedDesc(tbl, SubSeq(scan, 1, Len(scan) - 1)),
                      NoteOut(scan[Len(scan)], tbl[scan[Len(scan)]]))

\* db.query(NoteORM).order_by(NoteORM.updated_at.desc()).all()
QueryAll(tbl) == OrderByUpdatedDesc(tbl, ScanOrder(DOMAIN tbl))

\* a full update that forgets to refresh updated_at
PutAssignNoTouch(note, t, c, now) ==
    [note EXCEPT !.title = Strip(t), !.content = Strip(c)]

\* lines 233-235 of update_note_put
PutAssign(note, t, c, now) ==
    [note EXCEPT !.title = Strip(t), !.content = Strip(c), !.updated_at = now]

\* a partial update that commits whether or not a field was supplied
PatchUpdatedAlways(ot, oc) == TRUE

\* the flag `updated` of update_note_patch
PatchUpdated(ot, oc) == ot # Absent \/ oc # Absent

\* a partial update that blanks the field that was not supplied
PatchAssignClobber(note, ot, oc, now) ==
    [note EXCEPT !.title = IF ot # Absent THEN Strip(ot[1]) ELSE <<>>,
                 !.content = IF oc # Absent THEN Strip(oc[1]) ELSE <<>>,
                 !.updated_at = now]

\* lines 274-283 of update_note_patch
PatchAssign(note, ot, oc, now) ==
    [note EXCEPT !.title = IF ot # Absent THEN Strip(ot[1]) ELSE @,
                 !.content = IF oc # Absent THEN Strip(oc[1]) ELSE @,
                 !.updated_at = IF PatchUpdated(ot, oc) THEN now ELSE @]

Supplied(ot, oc) ==
    (IF ot # Absent THEN {"title"} ELSE {}) \cup (IF oc # Absent THEN {"content"} ELSE {})

\* ------------------------------------------------------------- responses
Response(op, status, id, fields, body) ==
    [op |-> op, status |-> status, id |-> id, fields |-> fields, body |-> body]

\* get_note: 404 when the lookup finds no row, the row otherwise
GetResponse(tbl, id) ==
    IF Lookup(tbl, id) = <<>> THEN Response("get", 404, id, {}, <<>>)
    ELSE Response("get", 200, id, {}, <<NoteOut(id, Lookup(tbl, id)[1])>>)

Remove(seq, x) == SelectSeq(seq, LAMBDA y : y # x)

\* the requests of a run, each with its own session, numbered as they arrive
Sessions == 1..MaxSessions

\* a session: where its handler stands (pc), the request (op, id, fields and
\* the payload ot, oc), the instance the lookup loaded and the instance as
\* the handler has assigned it
Session(pc, op, id, ot, oc, loaded, new) ==
    [pc |-> pc, op |-> op, id |-> id, ot |-> ot, oc |-> oc, loaded |-> loaded, new |-> new]

Idle == Session("idle", "none", 0, Absent, Absent, <<>>, <<>>)

\* db.close()
Closed == Session("closed", "none", 0, Absent, Absent, <<>>, <<>>)

Init ==
    /\ notes = <<>>
    /\ clock = 0
    /\ resp = Response("none", 0, 0, {}, <<>>)
    /\ created = {}
    /\ deleted = {}
    /\ inserted = <<>>
    /\ sess = [p \in Sessions |-> Idle]

\* the clock advances between two reads of it
Tick ==
    /\ clock < MaxClock
    /\ clock' = clock + 1
    /\ UNCHANGED <<notes, resp, created, deleted, inserted, sess>>

\* ------------------------------------------- handlers, one request at a time
\* POST /notes
create_note(t, c) ==
    /\ UNCHANGED <<clock, deleted, sess>>
    /\ IF ~NoteCreateOk(t, c)
       THEN /\ resp' = Response("create", 422, 0, {}, <<>>)
            /\ UNCHANGED <<notes, created, inserted>>
       ELSE LET id == NextRowid(notes) IN
            /\ id <= MaxId
            /\ notes' = InsertRow(notes, id, NewNote(t, c, clock))
            /\ resp' = Response("create", 201, id, {}, <<NoteOut(id, notes'[id])>>)
            /\ created' = created \cup {id}
            /\ inserted' = Append(inserted, id)

\* GET /notes
list_notes ==
    /\ resp' = Response("list", 200, 0, {}, QueryAll(notes))
    /\ UNCHANGED <<notes, clock, created, deleted, inserted, sess>>

\* GET /notes/{note_id}
get_note(id) ==
    /\ UNCHANGED <<notes, clock, created, deleted, inserted, sess>>
    /\ resp' = GetResponse(notes, id)

\* PUT /notes/{note_id}
update_note_put(id, t, c) ==
    /\ UNCHANGED <<clock, created, deleted, inserted, sess>>
    /\ IF ~NoteCreateOk(t, c)
       THEN /\ resp' = Response("put", 422, id, {}, <<>>)
            /\ UNCHANGED notes
       ELSE IF Lookup(notes, id) = <<>>
       THEN /\ resp' = Response("put", 404, id, {}, <<>>)
            /\ UNCHANGED notes
       ELSE LET note == Lookup(notes, id)[1]
                done == Flush(notes, id, note, PutAssign(note, t, c, clock))
            IN /\ notes' = done.tbl
               /\ resp' = Response("put", 200, id, {"title", "content"},
                                   <<NoteOut(id, notes'[id])>>)

\* PATCH /notes/{note_id}
update_note_patch(id, ot, oc) ==
    /\ UNCHANGED <<clock, created, deleted, inserted, sess>>
    /\ IF ~NoteUpdateOk(ot, oc)
       THEN /\ resp' = Response("patch", 422, id, {}, <<>>)
            /\ UNCHANGED notes
       ELSE IF Lookup(notes, id) = <<>>
       THEN /\ resp' = Response("patch", 404, id, {}, <<>>)
            /\ UNCHANGED notes
       ELSE LET note == Lookup(notes, id)[1]
                new == PatchAssign(note, ot, oc, clock)
                done == IF PatchUpdated(ot, oc) THEN Flush(notes, id, note, new)
                        ELSE [ok |-> TRUE, tbl |-> notes]
            IN /\ notes' = done.tbl
               /\ resp' = Response("patch", 200, id, Supplied(ot, oc),
                                   <<NoteOut(id, IF PatchUpdated(ot, oc)
                                                 THEN notes'[id] ELSE new)>>)

\* DELETE /notes/{note_id}
delete_note(id) ==
    /\ UNCHANGED <<clock, created, sess>>
    /\ IF Lookup(notes, id) = <<>>
       THEN /\ resp' = Response("delete", 404, id, {}, <<>>)
            /\ UNCHANGED <<notes, deleted, inserted>>
       ELSE /\ notes' = DeleteRow(notes, id)
            /\ resp' = Response("delete", 204, id, {}, <<>>)
            /\ deleted' = deleted \cup {id}
            /\ inserted' = Remove(inserted, id)

\* the ids a request may name (Path(..., ge=1))
NoteIds == 1..MaxId

Create == \E t \in TitleInputs, c \in ContentInputs : create_note(t, c)

List == list_notes

Get == \E id \in NoteIds : get_note(id)

UpdateFull == \E id \in NoteIds, t \in TitleInputs, c \in ContentInputs : update_note_put(id, t, c)

UpdatePartial ==
    \E id \in NoteIds, ot \in OptInputs(TitleInputs), oc \in OptInputs(ContentInputs) :
        update_note_patch(id, ot, oc)

Delete == \E id \in NoteIds : delete_note(id)

Next == Tick \/ Create \/ List \/ Get \/ UpdateFull \/ UpdatePartial \/ Delete

Spec == Init /\ [][Next]_vars

\* ------------------------------------------- handlers as concurrent sessions
\* Every request has its own session (get_db).  A SELECT holds no lock once it
\* has returned and a commit is one SQLite write transaction, so a handler is
\* a sequence of steps, each atomic: the lookup, the assignments (which read
\* the clock), the commit.  The refresh that follows a commit only reads, into
\* the response, and is taken in the step of the commit.  The session is
\* closed when the response is sent.  The payloads are validated before the
\* handler runs: the requests here are the accepted ones.
Arrives(p) ==
    sess[p].pc = "idle" /\ \A q \in Sessions : q < p => sess[q].pc # "idle"

Respond(p, r) ==
    /\ resp' = r
    /\ sess' = [sess EXCEPT ![p] = Closed]

\* db.refresh(note) and the return: the refresh raises when the row is gone
Refreshed(tbl, op, status, id, fields) ==
    IF Lookup(tbl, id) = <<>> THEN Response(op, 500, id, fields, <<>>)
    ELSE Response(op, status, id, fields, <<NoteOut(id, Lookup(tbl, id)[1])>>)

\* create_note, lines 138-144: the clock is read and the instance built
CreateBegin(p, t, c) ==
    /\ Arrives(p)
    /\ NoteCreateOk(t, c)
    /\ sess' = [sess EXCEPT ![p] =
                  Session("new", "create", 0, Absent, Absent, <<>>, <<NewNote(t, c, clock)>>)]
    /\ UNCHANGED <<notes, clock, resp, created, deleted, inserted>>

\* create_note, lines 145-148: INSERT, COMMIT, refresh
CreateCommit(p) ==
    /\ sess[p].pc = "new"
    /\ LET id == NextRowid(notes) IN
       /\ id <= MaxId
       /\ notes' = InsertRow(notes, id, sess[p].new[1])
       /\ created' = created \cup {id}
       /\ inserted' = Append(inserted, id)
       /\ Respond(p, Refreshed(notes', "create", 201, id, {}))
    /\ UNCHANGED <<clock, deleted>>

\* the first statement of update_note_put, update_note_patch and delete_note:
\* the row is looked up
LookupStep(p, op, id, ot, oc) ==
    /\ Arrives(p)
    /\ NoteUpdateOk(ot, oc)
    /\ UNCHANGED <<notes, clock, created, deleted, inserted>>
    /\ IF Lookup(notes, id) = <<>>
       THEN Respond(p, Response(op, 404, id, {}, <<>>))
       ELSE /\ sess' = [sess EXCEPT ![p] =
                          Session("loaded", op, id, ot, oc, Lookup(notes, id), <<>>)]
            /\ UNCHANGED resp

PutBegin(p, id, t, c) == LookupStep(p, "put", id, Some(t), Some(c))

PatchBegin(p, id, ot, oc) == LookupStep(p, "patch", id, ot, oc)

DeleteBegin(p, id) == LookupStep(p, "delete", id, Absent, Absent)

\* update_note_put, lines 233-235
PutAssignStep(p) ==
    /\ sess[p].pc = "loaded" /\ sess[p].op = "put"
    /\ LET s == sess[p] IN
       sess' = [sess EXCEPT ![p] =
                  [s EXCEPT !.pc = "dirty",
                            !.new = <<PutAssign(s.loaded[1], s.ot[1], s.oc[1], clock)>>]]
    /\ UNCHANGED <<notes, clock, resp, created, deleted, inserted>>

\* update_note_patch, lines 274-283 and, when no field was supplied, 288
PatchAssignStep(p) ==
    /\ sess[p].pc = "loaded" /\ sess[p].op = "patch"
    /\ UNCHANGED <<notes, clock, created, deleted, inserted>>
    /\ LET s == sess[p]
           new == PatchAssign(s.loaded[1], s.ot, s.oc, clock)
       IN IF PatchUpdated(s.ot, s.oc)
          THEN /\ sess' = [sess EXCEPT ![p] = [s EXCEPT !.pc = "dirty", !.new = <<new>>]]
               /\ UNCHANGED resp
          ELSE Respond(p, Response("patch", 200, s.id, {}, <<NoteOut(s.id, new)>>))

\* db.add(note); db.commit(); db.refresh(note) of the two updates
UpdateCommit(p) ==
    /\ sess[p].pc = "dirty"
    /\ UNCHANGED <<clock, created, deleted, inserted>>
    /\ LET s == sess[p]
           done == Flush(notes, s.id, s.loaded[1], s.new[1])
       IN IF done.ok
          THEN /\ notes' = done.tbl
               /\ Respond(p, Refreshed(notes', s.op, 200, s.id, Supplied(s.ot, s.oc)))
          ELSE /\ UNCHANGED notes
               /\ Respond(p, Response(s.op, 500, s.id, Supplied(s.ot, s.oc), <<>>))

\* delete_note, lines 321-323: DELETE and COMMIT; a DELETE that matches no row
\* is only warned about
DeleteCommit(p) ==
    /\ sess[p].pc = "loaded" /\ sess[p].op = "delete"
    /\ notes' = DeleteRow(notes, sess[p].id)
    /\ deleted' = IF sess[p].id \in DOMAIN notes THEN deleted \cup {sess[p].id} ELSE deleted
    /\ inserted' = Remove(inserted, sess[p].id)
    /\ Respond(p, Response("delete", 204, sess[p].id, {}, <<>>))
    /\ UNCHANGED <<clock, created>>

ConcCreate ==
    \E p \in Sessions, t \in ConcTitleInputs, c \in ConcContentInputs : CreateBegin(p, t, c)

ConcCreateCommit == \E p \in Sessions : CreateCommit(p)

ConcPut ==
    \E p \in Sessions, id \in NoteIds, t \in ConcTitleInputs, c \in ConcContentInputs :
        PutBegin(p, id, t, c)

ConcPatch ==
    \E p \in Sessions, id \in NoteIds,
       ot \in OptInputs(ConcTitleInputs), oc \in OptInputs(ConcContentInputs) :
        PatchBegin(p, id, ot, oc)

ConcDelete == \E p \in Sessions, id \in NoteIds : DeleteBegin(p, id)

ConcPutAssign == \E p \in Sessions : PutAssignStep(p)

ConcPatchAssign == \E p \in Sessions : PatchAssignStep(p)

ConcUpdateCommit == \E p \in Sessions : UpdateCommit(p)

ConcDeleteCommit == \E p \in Sessions : DeleteCommit(p)

NextConc ==
    \/ Tick
    \/ ConcCreate \/ ConcCreateCommit
    \/ ConcPut \/ ConcPatch \/ ConcDelete
    \/ ConcPutAssign \/ ConcPatchAssign
    \/ ConcUpdateCommit \/ ConcDeleteCommit

SpecConc == Init /\ [][NextConc]_vars

\* ------------------------------------------------------------------ claims
\* the position of x in a sequence that holds it once
Pos(seq, x) == CHOOSE i \in 1..Len(seq) : seq[i] = x

\* a title or content that is empty or only whitespace
Blank(s) == Strip(s) = <<>>

\* C1 (as claimed): for every title of 1 to 255 characters after trimming
\* and every content of at least 1 character after trimming, Create succeeds
\* and a Get by the returned id right after it returns the trimmed title and
\* content, with created_at equal to updated_at.
C1_CreateThenGet ==
    [][\A t \in TitleInputs, c \in ContentInputs :
         (/\ Len(Strip(t)) >= 1 /\ Len(Strip(t)) <= 255
          /\ Len(Strip(c)) >= 1
          /\ create_note(t, c))
         => /\ resp'.status = 201
            /\ GetResponse(notes', resp'.id).status = 200
            /\ LET got == GetResponse(notes', resp'.id).body[1] IN
               /\ got.title = Strip(t)
               /\ got.content = Strip(c)
               /\ got.created_at = got.updated_at]_vars

\* a step that answers a request naming id: resp' is its response
Answers(id) == clock' = clock /\ resp'.id = id /\ resp'.status # 422

\* C2 (as claimed): for every id never returned by a Create or already
\* deleted by a successful Delete, Get, UpdateFull, UpdatePartial and Delete
\* on it answer 404 and leave the store unchanged.
C2_AbsentIdsNotFound ==
    [][\A id \in NoteIds :
         (/\ id \notin created \/ id \in deleted
          /\ resp'.op \in {"get", "put", "patch", "delete"}
          /\ Answers(id))
         => resp'.status = 404 /\ notes' = notes]_vars

\* C3 (as claimed): no stored note has a title or a content that is empty or
\* only whitespace.
C3_NoBlankStored ==
    \A id \in DOMAIN notes : ~Blank(notes[id].title) /\ ~Blank(notes[id].content)

\* the last response is that of a successful update that supplied a field
UpdateAnswered ==
    resp.op \in {"put", "patch"} /\ resp.status = 200 /\ resp.fields # {}

C5_PatchFrame ==
    [][(resp'.op = "patch" /\ resp'.status = 200) =>
        \A ot \in OptInputs(TitleInputs), oc \in OptInputs(ContentInputs) :
          (/\ PatchUpdated(ot, oc)
           /\ Supplied(ot, oc) = resp'.fields
           /\ resp'.id \in DOMAIN notes
           /\ update_note_patch(resp'.id, ot, oc))
          => LET id == resp'.id IN
             /\ DOMAIN notes' = DOMAIN notes
             /\ \A other \in DOMAIN notes \ {id} : notes'[other] = notes[other]
             /\ notes'[id].created_at = notes[id].created_at
             /\ notes'[id].title = IF ot = Absent THEN notes[id].title ELSE Strip(ot[1])
             /\ notes'[id].content = IF oc = Absent THEN notes[id].content ELSE Strip(oc[1])
             /\ notes'[id].updated_at = clock]_vars

C5_Witness ==
    /\ resp.op = "patch" /\ resp.status = 200 /\ resp.fields = {"title"}
    /\ Cardinality(DOMAIN notes) = 2
    /\ notes[resp.id].updated_at > notes[resp.id].created_at
    /\ notes[resp.id].content # <<>>

C7_UpdatedNotBeforeCreated ==
    \A id \in DOMAIN notes : notes[id].updated_at >= notes[id].created_at

C9_LastWriteWins ==
    [][\A p \in Sessions :
         (deleted = {} /\ UpdateCommit(p))
         => /\ resp'.status = 200
            /\ \A f \in Supplied(sess[p].ot, sess[p].oc) :
                  notes'[sess[p].id][f] = sess[p].new[1][f]]_vars

\* C10: an update never puts a row into the table: the rows present after a
\* step of an update are those present before it, and an update that commits
\* after a Delete of its note has committed leaves the table as it is.
C10_NoResurrection ==
    [][\A p \in Sessions :
         (sess[p].op \in {"put", "patch"} /\ sess'[p] # sess[p])
         => /\ DOMAIN notes' = DOMAIN notes
            /\ (sess[p].id \notin DOMAIN notes => notes' = notes)]_vars

C10_Witness ==
    /\ resp.op \in {"put", "patch"}
    /\ resp.status = 500
    /\ resp.id \in deleted
    /\ resp.id \notin DOMAIN notes

====
